---- MODULE Spec2Model ----
(***************************************************************************)
(* Missive attachment downloader.                                          *)
(*                                                                         *)
(* Spec      : several Application instances (src/app.py) polling one      *)
(*             attachment table through Database (src/db.py) and saving    *)
(*             files with AttachmentProcessor (src/attachment_processor.py)*)
(* SpecFaults: Spec with database requests that may raise                  *)
(* SpecSpool : SpoolQueue instances (src/queue/spool_queue.py) over one    *)
(*             spool directory, driven by Worker._run (src/worker.py) and  *)
(*             by the Poller's enqueue (src/poller.py)                     *)
(* SpecPoller: the Poller's cycle (src/poller.py) with its checkpoint      *)
(*             (src/checkpoint.py) over the spool directory                *)
(* SpecSequential, SpecConcurrent: AttachmentProcessor.process for         *)
(*             attachments whose names collide, called in turn / side by   *)
(*             side                                                        *)
(* SpecClassify: one Application over rows of every metadata profile       *)
(***************************************************************************)
EXTENDS Integers, Sequences, FiniteSets, TLC

(***************************************************************************)
(* Bounds of the model                                                     *)
(***************************************************************************)
NumApps == 2            \* Application processes sharing the table
NumAttachments == 2     \* rows of email_attachment_files
NumQueues == 2          \* SpoolQueue instances (Workers) over the spool directory
MaxClock == 2           \* seconds the spool's clock may advance
MaxTime == 3            \* clock ticks the wall clock may advance
TickMinutes == 15       \* minutes per clock tick
MaxFiles == 3           \* files the storage folder may hold
MaxClaims == 3          \* claims of one row the history counts

(***************************************************************************)
(* Program constants                                                       *)
(***************************************************************************)
MAX_RETRIES == 3
BATCH_SIZE == 10
SKIP_IMAGE_MIN_SIZE == 25000
SKIP_IMAGE_MIN_DIMENSION == 360
StuckMinutes == 30
MaxNameLen == 100
MaxIdLen == 200
WorkerBatchItems == 5
retry_seconds == 2
LookbackSeconds == 2592000
BufferSeconds == 60
RequestRetries == 3

Apps == 1 .. NumApps
Attachments == 1 .. NumAttachments

\* Optional values: {} is Python's None, {v} is the value v.
None == {}
Some(v) == {v}
Truthy(x) == x /= None /\ x /= Some(0)
Val(x) == CHOOSE v \in x : TRUE

NoAttachment == 0
NoFile == << >>

\* The URL process() holds: the row's original_url, whose query string may carry
\* an 'Expires' timestamp, or the one get_fresh_attachment_url returned.
NoUrl == [kind |-> "none", Expires |-> None]
OriginalUrl(expires) == [kind |-> "original", Expires |-> expires]
FreshUrl == [kind |-> "fresh", Expires |-> None]

Statuses == {"pending", "downloading", "completed", "failed", "skipped"}

VARIABLES
    now,             \* wall clock, in ticks
    dbFaults,        \* whether requests to the database may fail
    rows,            \* the columns of each row the program never writes
    status,          \* email_attachment_files.status
    retry_count,     \* email_attachment_files.retry_count
    updated_at,      \* email_attachment_files.updated_at
    local_filename,  \* email_attachment_files.local_filename
    fs,              \* the storage folder: a set of [name, content], content the attachment the bytes are of
    pc,              \* where each Application is in run/_process_batch/process
    batch,           \* the rest of `attachments` in _process_batch
    cur,             \* attachment_id of the loop body
    fname,           \* local_filename of process()
    current_retry,   \* current_retry of mark_failed
    processed,       \* processed of _process_batch
    netCalls,        \* network requests issued by the current process() call
    url,             \* url of process(): which URL it is and its 'Expires' parameter
    reqs,            \* the network requests of the current process() call, in order
    claimWon,        \* history: mark_downloading calls that returned True since the row's last other write
    claimLost,       \* history: mark_downloading calls that returned False since then
    epochStart,      \* history: the row's status after its last write other than a claim
    firstPath,       \* history: the path the first finished process() of an attachment returned
    repeat,          \* history: the current process() call began after an earlier one had finished
    begun,           \* history: processor.process has been called for the attachment
    running,         \* Application.running
    config_ok,       \* whether settings.validate_config() passes
    resets,          \* history: reset_stuck_downloads requests the process has issued
    observed,        \* the Applications whose batches are recorded in unslept and claimed
    unslept,         \* history: attachments whose mark_failed set 'pending' since the process last slept POLL_INTERVAL
    claimed,         \* history: attachments the current _process_batch call has claimed
    invoked,         \* history: processor.process calls made for each attachment by the observed Applications
    rpc,             \* where each MissiveClient is in _request
    request_retry,   \* retry_count of the innermost _request call
    response,        \* what session.request gave the innermost _request call
    result,          \* what the outermost _request call returned
    clock,           \* spool: wall clock, in seconds
    dir,             \* spool: the files of missive_dir, a set of [stem, suffix, mtime]
    _current_file,   \* SpoolQueue._current_file of each instance: None or Some(path)
    _current_batch_files,  \* SpoolQueue._current_batch_files
    _current_batch_items,  \* SpoolQueue._current_batch_items (the items' external_id)
    wpc,             \* where each Worker is in _run
    todo,            \* the items of `batch` the Worker's for loop has not reached
    held,            \* history: entries returned to an instance and neither acknowledged nor failed
    worker_running,  \* Worker.running of the Worker of each instance
    checkpoint,      \* the checkpoint file: None (absent or unreadable) or Some(last_sync)
    process_after,   \* settings.MISSIVE_PROCESS_AFTER: None or Some(date)
    poller_running,  \* Poller.running
    stop_at,         \* history: where the Poller stood when stop() was called
    ppc,             \* where the Poller is in _run/_poll_once
    last_sync,       \* last_sync of _poll_once: the start of the queried window
    kept,            \* the conversations with attachments the for loop has not reached
    cycleKept,       \* history: the ids of the conversations kept in this cycle
    enqueued,        \* history: the ids enqueue() returned for in this cycle
    abandoned        \* history: None, or Some(window start) of the last cycle, which raised

dbVars == <<status, retry_count, updated_at, local_filename>>
envVars == <<now, dbFaults, rows>>
locVars == <<batch, cur, fname, current_retry, processed, netCalls, url, reqs>>
histVars == <<claimWon, claimLost, epochStart, firstPath, repeat, begun>>
lifeVars == <<running, config_ok, resets, observed, unslept, claimed, invoked>>
clientVars == <<rpc, request_retry, response, result>>
appVars == <<envVars, dbVars, fs, pc, locVars, histVars, lifeVars, clientVars>>
queueVars == <<_current_file, _current_batch_files, _current_batch_items>>
spoolVars == <<clock, dir, queueVars, wpc, todo, held, worker_running>>
pollVars == <<checkpoint, process_after, poller_running, stop_at, ppc, last_sync, kept, cycleKept, enqueued, abandoned>>

(***************************************************************************)
(* File names (sequences of characters)                                    *)
(***************************************************************************)
UpperChars == <<"A","B","C","D","E","F","G","H","I","J","K","L","M",
                "N","O","P","Q","R","S","T","U","V","W","X","Y","Z">>
LowerChars == <<"a","b","c","d","e","f","g","h","i","j","k","l","m",
                "n","o","p","q","r","s","t","u","v","w","x","y","z">>
DigitChars == <<"0","1","2","3","4","5","6","7","8","9">>
Range(s) == {s[i] : i \in DOMAIN s}
SafeChars == Range(UpperChars) \cup Range(LowerChars) \cup Range(DigitChars) \cup {".", "_", "-"}

LowerChar(c) ==
    IF \E i \in DOMAIN UpperChars : UpperChars[i] = c
    THEN LowerChars[CHOOSE i \in DOMAIN UpperChars : UpperChars[i] = c]
    ELSE c
Lower(s) == [i \in DOMAIN s |-> LowerChar(s[i])]

RECURSIVE IntToStr(_)
IntToStr(n) ==
    IF n < 10 THEN <<DigitChars[n + 1]>>
    ELSE IntToStr(n \div 10) \o <<DigitChars[(n % 10) + 1]>>

\* str.strip(chars)
RECURSIVE LStrip(_, _)
LStrip(s, chars) ==
    IF s /= << >> /\ Head(s) \in chars THEN LStrip(Tail(s), chars) ELSE s
RECURSIVE RStrip(_, _)
RStrip(s, chars) ==
    IF s /= << >> /\ s[Len(s)] \in chars THEN RStrip(SubSeq(s, 1, Len(s) - 1), chars) ELSE s
Strip(s, chars) == RStrip(LStrip(s, chars), chars)

\* re.sub(r'[-_]+', '-', s)
RECURSIVE CollapseDashes(_)
CollapseDashes(s) ==
    IF s = << >> THEN << >>
    ELSE IF Head(s) \in {"-", "_"}
         THEN <<"-">> \o CollapseDashes(LStrip(Tail(s), {"-", "_"}))
         ELSE <<Head(s)>> \o CollapseDashes(Tail(s))

_sanitize_filename(name) ==
    LET spaced == [i \in DOMAIN name |-> IF name[i] = " " THEN "-" ELSE name[i]]
        safe == [i \in DOMAIN spaced |-> IF spaced[i] \in SafeChars THEN spaced[i] ELSE "_"]
        trimmed == Strip(CollapseDashes(safe), {"-", "_"})
    IN  IF trimmed /= << >>
        THEN SubSeq(trimmed, 1, IF Len(trimmed) < MaxNameLen THEN Len(trimmed) ELSE MaxNameLen)
        ELSE <<"a","t","t","a","c","h","m","e","n","t">>

\* original_filename.rsplit('.', 1)
LastDot(s) ==
    IF \E i \in DOMAIN s : s[i] = "."
    THEN CHOOSE i \in DOMAIN s : s[i] = "." /\ \A j \in DOMAIN s : j > i => s[j] /= "."
    ELSE 0
SplitName(s) == IF LastDot(s) = 0 THEN s ELSE SubSeq(s, 1, LastDot(s) - 1)
SplitExt(s) == IF LastDot(s) = 0 THEN << >> ELSE Lower(SubSeq(s, LastDot(s) + 1, Len(s)))

IndexedFilename(name, ext, idx) ==
    IF ext /= << >> THEN name \o <<"_">> \o IntToStr(idx) \o <<".">> \o ext
    ELSE name \o <<"_">> \o IntToStr(idx)

RECURSIVE ProbeIndex(_, _, _, _)
ProbeIndex(files, name, ext, idx) ==
    IF IndexedFilename(name, ext, idx) \notin files
    THEN IndexedFilename(name, ext, idx)
    ELSE ProbeIndex(files, name, ext, idx + 1)

\* files: the names that exist in folder_path
_generate_base_filename(files, original_filename) ==
    LET name == _sanitize_filename(SplitName(original_filename))
        ext == SplitExt(original_filename)
    IN  IF ext /= << >> THEN name \o <<".">> \o ext ELSE name
_generate_unique_filename(files, original_filename) ==
    LET name == _sanitize_filename(SplitName(original_filename))
        ext == SplitExt(original_filename)
        base_filename == IF ext /= << >> THEN name \o <<".">> \o ext ELSE name
    IN  IF base_filename \notin files THEN base_filename
        ELSE ProbeIndex(files, name, ext, 1)

(***************************************************************************)
(* Application._should_skip                                                *)
(***************************************************************************)
SKIP_TYPES == { <<"application", "pgp-signature">>, <<"application", "pkcs7-signature">>,
                <<"text", "calendar">>, <<"application", "ics">> }

_should_skip(attachment) ==
    IF <<attachment.media_type, attachment.sub_type>> \in SKIP_TYPES
    THEN "skip type"
    ELSE IF attachment.media_type = "image"
         THEN IF Truthy(attachment.file_size) /\ Val(attachment.file_size) < SKIP_IMAGE_MIN_SIZE
              THEN "image too small: bytes"
              ELSE IF Truthy(attachment.width) /\ Truthy(attachment.height)
                      /\ (Val(attachment.width) < SKIP_IMAGE_MIN_DIMENSION
                          \/ Val(attachment.height) < SKIP_IMAGE_MIN_DIMENSION)
                   THEN "image too small: px"
                   ELSE "None"
         ELSE "None"

(***************************************************************************)
(* Rows of email_attachment_files handed to the program                   *)
(***************************************************************************)
InvoicePdf ==
    [original_filename |-> <<"i","n","v","o","i","c","e",".","p","d","f">>,
     media_type |-> "application", sub_type |-> "pdf",
     file_size |-> Some(2000000), width |-> None, height |-> None]
LogoPng ==
    [original_filename |-> <<"l","o","g","o",".","p","n","g">>,
     media_type |-> "image", sub_type |-> "png",
     file_size |-> Some(10000), width |-> Some(16), height |-> Some(16)]
\* The rows of the end-to-end scenario: a 2 MB PDF and a 10 KB image, in turn.
Profiles == <<InvoicePdf, LogoPng>>

\* Rows whose original_filename resolves to invoice.pdf.
InvoicePdfUpper ==
    [original_filename |-> <<"i","n","v","o","i","c","e",".","P","D","F">>,
     media_type |-> "application", sub_type |-> "pdf",
     file_size |-> Some(2000000), width |-> None, height |-> None]
InvoicePdfSpaced ==
    [original_filename |-> <<"i","n","v","o","i","c","e"," ",".","p","d","f">>,
     media_type |-> "application", sub_type |-> "pdf",
     file_size |-> Some(2000000), width |-> None, height |-> None]
SameNameProfiles == {InvoicePdf, InvoicePdfUpper, InvoicePdfSpaced}

\* Rows by their metadata: types in and out of SKIP_TYPES, sizes and dimensions
\* unknown (NULL), zero, just below and at the thresholds.
Sizes == {None, Some(0), Some(SKIP_IMAGE_MIN_SIZE - 1), Some(SKIP_IMAGE_MIN_SIZE)}
Dimensions == {None, Some(0), Some(SKIP_IMAGE_MIN_DIMENSION - 1), Some(SKIP_IMAGE_MIN_DIMENSION)}
MetadataProfiles ==
    [original_filename : {LogoPng.original_filename},
     media_type : {"image", "application"},
     sub_type : {"png", "pdf", "pgp-signature"},
     file_size : Sizes, width : Dimensions, height : Dimensions]

(***************************************************************************)
(* Database (src/db.py): each request is one atomic statement of the store *)
(***************************************************************************)
\* A request either reaches the store and is answered, or raises.
DbOutcomes == IF dbFaults THEN {"ok", "error"} ELSE {"ok"}

\* get_pending_attachments: status=eq.pending, retry_count=lt.MAX_RETRIES,
\* order=created_at.asc (rows are created in the order of their ids), limit
RECURSIVE PendingFrom(_)
PendingFrom(a) ==
    IF a > NumAttachments THEN << >>
    ELSE (IF status[a] = "pending" /\ retry_count[a] < MAX_RETRIES THEN <<a>> ELSE << >>)
         \o PendingFrom(a + 1)
get_pending_attachments(limit) ==
    LET all == PendingFrom(1)
    IN  SubSeq(all, 1, IF Len(all) < limit THEN Len(all) ELSE limit)

\* mark_downloading: params = {missive_attachment_id: eq.id, status: eq.pending}
ClaimMatchesAnyStatus(a) == TRUE
ClaimMatches(a) == status[a] = "pending"

\* reset_stuck_downloads: params = {status: eq.downloading, updated_at: lt.cutoff}
IsStuckAnyAge(a, minutes) == status[a] = "downloading"
IsStuck(a, minutes) ==
    /\ status[a] = "downloading"
    /\ updated_at[a] * TickMinutes < now * TickMinutes - minutes

\* mark_failed: status = "failed" if new_retry >= MAX_RETRIES else "pending"
FailStatus(new_retry) == IF new_retry >= MAX_RETRIES THEN "failed" ELSE "pending"

\* History of the claims on a row: a write other than a claim opens a new epoch.
NewEpoch(written) ==
    /\ claimWon' = [a \in Attachments |-> IF a \in written THEN 0 ELSE claimWon[a]]
    /\ claimLost' = [a \in Attachments |-> IF a \in written THEN 0 ELSE claimLost[a]]
    /\ epochStart' = [a \in Attachments |-> IF a \in written THEN status'[a] ELSE epochStart[a]]
SameEpoch == UNCHANGED <<claimWon, claimLost, epochStart>>

\* MissiveClient._request: no call is under way.
NoResponse == "none"
ClientIdle ==
    /\ rpc = [w \in Apps |-> "idle"]
    /\ request_retry = [w \in Apps |-> 0]
    /\ response = [w \in Apps |-> NoResponse]
    /\ result = [w \in Apps |-> "none"]

(***************************************************************************)
(* Application (src/app.py)                                                *)
(***************************************************************************)
AppInitConfig(faults, table, config, watch) ==
    /\ ClientIdle
    /\ running = [w \in Apps |-> FALSE]
    /\ config_ok = config
    /\ observed = watch
    /\ resets = [w \in Apps |-> 0]
    /\ unslept = [w \in Apps |-> {}]
    /\ claimed = [w \in Apps |-> {}]
    /\ invoked = [a \in Attachments |-> 0]
    /\ now = 0
    /\ dbFaults = faults
    /\ rows = table
    /\ status = [a \in Attachments |-> "pending"]
    /\ retry_count = [a \in Attachments |-> 0]
    /\ updated_at = [a \in Attachments |-> 0]
    /\ local_filename = [a \in Attachments |-> NoFile]
    /\ fs = {}
    /\ pc = [w \in Apps |-> "down"]
    /\ batch = [w \in Apps |-> << >>]
    /\ cur = [w \in Apps |-> NoAttachment]
    /\ fname = [w \in Apps |-> NoFile]
    /\ current_retry = [w \in Apps |-> 0]
    /\ processed = [w \in Apps |-> 0]
    /\ netCalls = [w \in Apps |-> 0]
    /\ url = [w \in Apps |-> NoUrl]
    /\ reqs = [w \in Apps |-> << >>]
    /\ claimWon = [a \in Attachments |-> 0]
    /\ claimLost = [a \in Attachments |-> 0]
    /\ epochStart = [a \in Attachments |-> "pending"]
    /\ firstPath = [a \in Attachments |-> NoFile]
    /\ repeat = [w \in Apps |-> FALSE]
    /\ begun = [a \in Attachments |-> FALSE]

\* The same with a configuration that validates and no batch recorded.
AppInitRows(faults, table) == AppInitConfig(faults, table, TRUE, {})

\* The table of the end-to-end scenario: a PDF and a small inline image.
AppInitWith(faults) ==
    AppInitRows(faults, [a \in Attachments |-> Profiles[((a - 1) % Len(Profiles)) + 1]])

AppInit == AppInitWith(FALSE)

\* The loop body is left: back to the head of `for attachment in attachments`.
NextItem(w) ==
    /\ pc' = [pc EXCEPT ![w] = "loop"]
    /\ cur' = [cur EXCEPT ![w] = NoAttachment]
    /\ fname' = [fname EXCEPT ![w] = NoFile]
    /\ current_retry' = [current_retry EXCEPT ![w] = 0]
    /\ netCalls' = [netCalls EXCEPT ![w] = 0]
    /\ url' = [url EXCEPT ![w] = NoUrl]
    /\ reqs' = [reqs EXCEPT ![w] = << >>]
    /\ repeat' = [repeat EXCEPT ![w] = FALSE]

\* start() with self.running = True ahead of the validation, and a run() that
\* goes on whatever the validation says.
StartUnvalidated(w) ==
    /\ UNCHANGED <<spoolVars, pollVars>>
    /\ UNCHANGED clientVars
    /\ pc[w] = "down"
    /\ pc' = [pc EXCEPT ![w] = "reset"]
    /\ running' = [running EXCEPT ![w] = TRUE]
    /\ UNCHANGED <<config_ok, resets, observed, invoked, unslept, claimed>>
    /\ UNCHANGED <<envVars, dbVars, fs, locVars, histVars>>

\* main(): Application(), then run() up to the end of start():
\* settings.validate_config() raises ValueError, which main() turns into
\* sys.exit(1), or passes and self.running = True follows.
Start(w) ==
    /\ UNCHANGED <<spoolVars, pollVars>>
    /\ UNCHANGED clientVars
    /\ pc[w] = "down"
    /\ pc' = [pc EXCEPT ![w] = IF config_ok THEN "reset" ELSE "halted"]
    /\ running' = [running EXCEPT ![w] = config_ok]
    /\ UNCHANGED <<config_ok, resets, observed, invoked, unslept, claimed>>
    /\ UNCHANGED <<envVars, dbVars, fs, locVars, histVars>>

\* reset_stuck_downloads() moved into the `while self.running` loop.
ResetStuckInLoop(w) ==
    /\ UNCHANGED <<spoolVars, pollVars>>
    /\ UNCHANGED clientVars
    /\ pc[w] \in {"reset", "poll"}
    /\ \E r \in DbOutcomes :
         LET stuck == IF r = "ok" THEN {a \in Attachments : IsStuck(a, StuckMinutes)} ELSE {}
         IN  /\ status' = [a \in Attachments |-> IF a \in stuck THEN "pending" ELSE status[a]]
             /\ updated_at' = [a \in Attachments |-> IF a \in stuck THEN now ELSE updated_at[a]]
             /\ NewEpoch(stuck)
    /\ pc' = [pc EXCEPT ![w] = "poll"]
    /\ resets' = [resets EXCEPT ![w] = IF @ < 2 THEN @ + 1 ELSE @]
    /\ UNCHANGED <<running, config_ok, observed, invoked, unslept, claimed>>
    /\ UNCHANGED <<envVars, retry_count, local_filename, fs, locVars, firstPath, repeat, begun>>

\* run(): self.db.reset_stuck_downloads()
ResetStuck(w) ==
    /\ UNCHANGED <<spoolVars, pollVars>>
    /\ UNCHANGED clientVars
    /\ pc[w] = "reset"
    /\ \E r \in DbOutcomes :
         LET stuck == IF r = "ok" THEN {a \in Attachments : IsStuck(a, StuckMinutes)} ELSE {}
         IN  /\ status' = [a \in Attachments |-> IF a \in stuck THEN "pending" ELSE status[a]]
             /\ updated_at' = [a \in Attachments |-> IF a \in stuck THEN now ELSE updated_at[a]]
             /\ NewEpoch(stuck)
    /\ pc' = [pc EXCEPT ![w] = "poll"]
    /\ resets' = [resets EXCEPT ![w] = @ + 1]
    /\ UNCHANGED <<running, config_ok, observed, invoked, unslept, claimed>>
    /\ UNCHANGED <<envVars, retry_count, local_filename, fs, locVars, firstPath, repeat, begun>>

\* _process_batch(): get_pending_attachments; an empty result returns 0 and
\* run() sleeps POLL_INTERVAL before the next poll.
Poll(w) ==
    /\ UNCHANGED <<spoolVars, pollVars>>
    /\ UNCHANGED clientVars
    /\ pc[w] = "poll"
    /\ \E r \in DbOutcomes :
         LET attachments == IF r = "ok" THEN get_pending_attachments(BATCH_SIZE) ELSE << >>
         IN  /\ batch' = [batch EXCEPT ![w] = attachments]
             /\ pc' = [pc EXCEPT ![w] = IF attachments = << >> THEN "poll" ELSE "loop"]
             /\ unslept' = IF attachments = << >> THEN [unslept EXCEPT ![w] = {}] ELSE unslept
    /\ processed' = [processed EXCEPT ![w] = 0]
    /\ UNCHANGED <<running, config_ok, resets, observed, invoked, claimed>>
    /\ UNCHANGED <<envVars, dbVars, fs, cur, fname, current_retry, netCalls, url, reqs, histVars>>

\* The history counts claims up to MaxClaims.
Counted(n) == IF n < MaxClaims THEN n + 1 ELSE n

\* for attachment in attachments: mark_downloading(attachment_id); a False
\* result continues with the next attachment.
MarkDownloading(w) ==
    /\ UNCHANGED <<spoolVars, pollVars>>
    /\ UNCHANGED clientVars
    /\ pc[w] = "loop"
    /\ batch[w] /= << >>
    /\ LET a == Head(batch[w])
       IN  \E r \in DbOutcomes :
             LET won == r = "ok" /\ ClaimMatches(a)
             IN  /\ status' = IF won THEN [status EXCEPT ![a] = "downloading"] ELSE status
                 /\ updated_at' = IF won THEN [updated_at EXCEPT ![a] = now] ELSE updated_at
                 /\ claimWon' = IF won THEN [claimWon EXCEPT ![a] = Counted(@)] ELSE claimWon
                 /\ claimLost' = IF won THEN claimLost ELSE [claimLost EXCEPT ![a] = Counted(@)]
                 /\ pc' = [pc EXCEPT ![w] = IF won THEN "claimed" ELSE "loop"]
                 /\ cur' = [cur EXCEPT ![w] = IF won THEN a ELSE NoAttachment]
                 /\ claimed' = IF won /\ w \in observed
                               THEN [claimed EXCEPT ![w] = @ \cup {a}] ELSE claimed
    /\ batch' = [batch EXCEPT ![w] = Tail(@)]
    /\ UNCHANGED <<running, config_ok, resets, observed, invoked, unslept>>
    /\ UNCHANGED <<envVars, retry_count, local_filename, fs, fname, current_retry,
                   processed, netCalls, url, reqs, epochStart, firstPath, repeat, begun>>

\* The loop is exhausted: return processed; run() sleeps when it is 0.
EndBatch(w) ==
    /\ UNCHANGED <<spoolVars, pollVars>>
    /\ UNCHANGED clientVars
    /\ pc[w] = "loop"
    /\ batch[w] = << >>
    /\ pc' = [pc EXCEPT ![w] = "poll"]
    /\ unslept' = IF processed[w] = 0 THEN [unslept EXCEPT ![w] = {}] ELSE unslept
    /\ claimed' = [claimed EXCEPT ![w] = {}]
    /\ UNCHANGED <<running, config_ok, resets, observed, invoked>>
    /\ UNCHANGED <<envVars, dbVars, fs, locVars, histVars>>

\* skip_reason is set: mark_skipped, processed += 1, continue.
MarkSkippedAfterFailure(w) ==
    /\ UNCHANGED <<spoolVars, pollVars>>
    /\ UNCHANGED clientVars
    /\ UNCHANGED lifeVars
    /\ pc[w] = "failed"
    /\ \E r \in DbOutcomes :
         /\ status' = IF r = "ok" THEN [status EXCEPT ![cur[w]] = "skipped"] ELSE status
         /\ updated_at' = IF r = "ok" THEN [updated_at EXCEPT ![cur[w]] = now] ELSE updated_at
         /\ IF r = "ok" THEN NewEpoch({cur[w]}) ELSE SameEpoch
    /\ processed' = [processed EXCEPT ![w] = @ + 1]
    /\ NextItem(w)
    /\ UNCHANGED <<envVars, retry_count, local_filename, fs, batch, firstPath, begun>>
MarkSkipped(w) ==
    /\ UNCHANGED <<spoolVars, pollVars>>
    /\ UNCHANGED clientVars
    /\ UNCHANGED lifeVars
    /\ pc[w] = "claimed"
    /\ _should_skip(rows[cur[w]]) /= "None"
    /\ \E r \in DbOutcomes :
         /\ status' = IF r = "ok" THEN [status EXCEPT ![cur[w]] = "skipped"] ELSE status
         /\ updated_at' = IF r = "ok" THEN [updated_at EXCEPT ![cur[w]] = now] ELSE updated_at
         /\ IF r = "ok" THEN NewEpoch({cur[w]}) ELSE SameEpoch
    /\ processed' = [processed EXCEPT ![w] = @ + 1]
    /\ NextItem(w)
    /\ UNCHANGED <<envVars, retry_count, local_filename, fs, batch, firstPath, begun>>

\* The names that exist in the storage folder. Every attachment resolves to the
\* same folder: get_pending_attachments selects none of project_name,
\* delivered_at, sender_email, email_subject, so process() uses their defaults.
Files == {f.name : f \in fs}

\* open(file_path, 'wb'); f.write(content)
WriteFile(name, content) == {f \in fs : f.name /= name} \cup {[name |-> name, content |-> content]}

\* int(datetime.now(timezone.utc).timestamp())
NowTs == now * TickMinutes * 60

\* The 'Expires' values a row's original_url may carry when process() reads it:
\* none, one second in the past, exactly buffer_seconds ahead, one second more.
UrlExpires == {None, Some(NowTs - 1), Some(NowTs + BufferSeconds), Some(NowTs + BufferSeconds + 1)}

\* _is_url_expired: now_ts >= expires_ts - buffer_seconds; False without 'Expires'
_is_url_expired_no_buffer(u, buffer_seconds) ==
    IF u.Expires /= None THEN NowTs >= Val(u.Expires) ELSE FALSE
_is_url_expired(u, buffer_seconds) ==
    IF u.Expires /= None THEN NowTs >= Val(u.Expires) - buffer_seconds ELSE FALSE

\* requests.get(url, timeout=60)
DownloadOf(u) == IF u.kind = "fresh" THEN "download fresh" ELSE "download original"

\* One more network request of the current process() call, and its response.
Request(w, req, resp) ==
    /\ netCalls' = [netCalls EXCEPT ![w] = @ + 1]
    /\ reqs' = [reqs EXCEPT ![w] = Append(@, [req |-> req, resp |-> resp])]

\* _refresh_url: get_fresh_attachment_url, then db.update_url (which swallows
\* its own errors); None from the API raises.
RefreshOutcomes == {"fresh", "none"}
UpdateUrl(w, fresh, r) ==
    updated_at' = IF fresh = "fresh" /\ r = "ok"
                  THEN [updated_at EXCEPT ![cur[w]] = now] ELSE updated_at

\* process() has returned relative_path.
Returned(w, path) ==
    firstPath' = IF firstPath[cur[w]] = NoFile
                 THEN [firstPath EXCEPT ![cur[w]] = path] ELSE firstPath

\* process(): folder_path.mkdir, _generate_unique_filename.
BeginProcess(w) ==
    /\ UNCHANGED <<spoolVars, pollVars>>
    /\ UNCHANGED clientVars
    /\ pc[w] = "claimed"
    /\ _should_skip(rows[cur[w]]) = "None"
    /\ invoked' = IF w \in observed /\ invoked[cur[w]] <= MAX_RETRIES
                  THEN [invoked EXCEPT ![cur[w]] = @ + 1] ELSE invoked
    /\ UNCHANGED <<running, config_ok, resets, observed, unslept, claimed>>
    /\ fname' = [fname EXCEPT ![w] =
                    _generate_unique_filename(Files, rows[cur[w]].original_filename)]
    /\ netCalls' = [netCalls EXCEPT ![w] = 0]
    /\ reqs' = [reqs EXCEPT ![w] = << >>]
    /\ repeat' = [repeat EXCEPT ![w] = firstPath[cur[w]] /= NoFile]
    /\ begun' = [begun EXCEPT ![cur[w]] = TRUE]
    /\ pc' = [pc EXCEPT ![w] = "exists"]
    /\ UNCHANGED <<envVars, dbVars, fs, batch, cur, current_retry, processed, url,
                   claimWon, claimLost, epochStart, firstPath>>

\* process(): if file_path.exists(): return relative_path; otherwise
\* url = attachment['original_url']
ExistsCheck(w) ==
    /\ UNCHANGED <<spoolVars, pollVars>>
    /\ UNCHANGED clientVars
    /\ UNCHANGED lifeVars
    /\ pc[w] = "exists"
    /\ IF fname[w] \in Files
       THEN /\ pc' = [pc EXCEPT ![w] = "done"]
            /\ Returned(w, fname[w])
            /\ UNCHANGED url
       ELSE /\ pc' = [pc EXCEPT ![w] = "expiry"]
            /\ \E expires \in UrlExpires : url' = [url EXCEPT ![w] = OriginalUrl(expires)]
            /\ UNCHANGED firstPath
    /\ UNCHANGED <<envVars, dbVars, fs, batch, cur, fname, current_retry, processed,
                   netCalls, reqs, claimWon, claimLost, epochStart, repeat, begun>>

\* process() stands where it calls _refresh_url.
RefreshPoint(w) ==
    \/ pc[w] = "refresh"
    \/ pc[w] = "expiry" /\ _is_url_expired(url[w], BufferSeconds)

\* _request(method, endpoint, retry_count=0) is called by get_fresh_attachment_url.
RequestCall(w) ==
    /\ UNCHANGED <<spoolVars, pollVars>>
    /\ RefreshPoint(w)
    /\ rpc[w] = "idle"
    /\ rpc' = [rpc EXCEPT ![w] = "send"]
    /\ request_retry' = [request_retry EXCEPT ![w] = 0]
    /\ UNCHANGED <<response, result>>
    /\ UNCHANGED <<envVars, dbVars, fs, pc, locVars, histVars, lifeVars>>

\* _request: response = self.session.request(...): a status, or a
\* ConnectionError or Timeout is raised.
Responses == {"200", "429", "5xx", "4xx", "connection"}
RequestSend(w) ==
    /\ UNCHANGED <<spoolVars, pollVars>>
    /\ rpc[w] = "send"
    /\ \E r \in Responses : response' = [response EXCEPT ![w] = r]
    /\ rpc' = [rpc EXCEPT ![w] = "handle"]
    /\ UNCHANGED <<request_retry, result>>
    /\ UNCHANGED <<envVars, dbVars, fs, pc, locVars, histVars, lifeVars>>

\* _request calls itself: with retry_count as it is after a 429, with
\* retry_count + 1 after a 5xx, ConnectionError or Timeout.
Recurse(w, retry) ==
    /\ rpc' = [rpc EXCEPT ![w] = "send"]
    /\ request_retry' = [request_retry EXCEPT ![w] = retry]
    /\ response' = [response EXCEPT ![w] = NoResponse]
    /\ UNCHANGED result

\* The innermost _request returns and every caller returns its value.
Return_request(w, value) ==
    /\ rpc' = [rpc EXCEPT ![w] = "returned"]
    /\ result' = [result EXCEPT ![w] = value]
    /\ response' = [response EXCEPT ![w] = NoResponse]
    /\ UNCHANGED request_retry

\* _request: what follows session.request.
Handle(w) ==
    CASE response[w] = "200" -> Return_request(w, "json")
      [] response[w] = "429" -> Recurse(w, request_retry[w])
      [] response[w] \in {"5xx", "connection"} ->
            IF request_retry[w] < RequestRetries
            THEN Recurse(w, request_retry[w] + 1)
            ELSE Return_request(w, "None")
      [] OTHER -> Return_request(w, "None")

RequestHandle(w) ==
    /\ UNCHANGED <<spoolVars, pollVars>>
    /\ rpc[w] = "handle"
    /\ Handle(w)
    /\ UNCHANGED <<envVars, dbVars, fs, pc, locVars, histVars, lifeVars>>

\* get_fresh_attachment_url returns: its _request call has returned (step by
\* step, or within this step), a URL only out of a response that was parsed.
GetFreshUrl(w, fresh) ==
    /\ rpc[w] \in {"idle", "returned"}
    /\ fresh = "fresh" => result[w] /= "None"
    /\ rpc' = [rpc EXCEPT ![w] = "idle"]
    /\ request_retry' = [request_retry EXCEPT ![w] = 0]
    /\ response' = [response EXCEPT ![w] = NoResponse]
    /\ result' = [result EXCEPT ![w] = "none"]

\* process(): if self._is_url_expired(url): url = self._refresh_url(...)
CheckExpiry(w) ==
    /\ UNCHANGED <<spoolVars, pollVars>>
    /\ UNCHANGED lifeVars
    /\ pc[w] = "expiry"
    /\ IF _is_url_expired(url[w], BufferSeconds)
       THEN \E fresh \in RefreshOutcomes, r \in DbOutcomes :
              /\ GetFreshUrl(w, fresh)
              /\ Request(w, "refresh", fresh)
              /\ UpdateUrl(w, fresh, r)
              /\ url' = IF fresh = "fresh" THEN [url EXCEPT ![w] = FreshUrl] ELSE url
              /\ pc' = [pc EXCEPT ![w] = IF fresh = "fresh" THEN "download" ELSE "failed"]
       ELSE /\ pc' = [pc EXCEPT ![w] = "download"]
            /\ UNCHANGED <<netCalls, reqs, url, updated_at>>
            /\ UNCHANGED clientVars
    /\ UNCHANGED <<envVars, status, retry_count, local_filename, fs, batch, cur, fname,
                   current_retry, processed, histVars>>

\* _download_with_refresh: the first self._download(url)
DownloadOutcomes == {"ok", "403", "error"}
Download(w) ==
    /\ UNCHANGED <<spoolVars, pollVars>>
    /\ UNCHANGED clientVars
    /\ UNCHANGED lifeVars
    /\ pc[w] = "download"
    /\ \E d \in DownloadOutcomes :
         /\ Request(w, DownloadOf(url[w]), d)
         /\ pc' = [pc EXCEPT ![w] = CASE d = "ok" -> "write"
                                      [] d = "403" -> "refresh"
                                      [] OTHER -> "failed"]
    /\ UNCHANGED <<envVars, dbVars, fs, batch, cur, fname, current_retry, processed,
                   url, histVars>>

\* _download_with_refresh: on 403, fresh_url = self._refresh_url(...)
Refresh403(w) ==
    /\ UNCHANGED <<spoolVars, pollVars>>
    /\ UNCHANGED lifeVars
    /\ pc[w] = "refresh"
    /\ \E fresh \in RefreshOutcomes, r \in DbOutcomes :
         /\ GetFreshUrl(w, fresh)
         /\ Request(w, "refresh", fresh)
         /\ UpdateUrl(w, fresh, r)
         /\ url' = IF fresh = "fresh" THEN [url EXCEPT ![w] = FreshUrl] ELSE url
         /\ pc' = [pc EXCEPT ![w] = IF fresh = "fresh" THEN "retry" ELSE "failed"]
    /\ UNCHANGED <<envVars, status, retry_count, local_filename, fs, batch, cur, fname,
                   current_retry, processed, histVars>>

\* _download_with_refresh: return self._download(fresh_url), True
RetryDownloadAgainOn403(w) ==
    /\ UNCHANGED <<spoolVars, pollVars>>
    /\ UNCHANGED clientVars
    /\ UNCHANGED lifeVars
    /\ pc[w] = "retry"
    /\ \E d \in DownloadOutcomes :
         /\ Request(w, DownloadOf(url[w]), d)
         /\ pc' = [pc EXCEPT ![w] = CASE d = "ok" -> "write"
                                      [] d = "403" -> "refresh"
                                      [] OTHER -> "failed"]
    /\ UNCHANGED <<envVars, dbVars, fs, batch, cur, fname, current_retry, processed,
                   url, histVars>>
RetryDownload(w) ==
    /\ UNCHANGED <<spoolVars, pollVars>>
    /\ UNCHANGED clientVars
    /\ UNCHANGED lifeVars
    /\ pc[w] = "retry"
    /\ \E d \in DownloadOutcomes :
         /\ Request(w, DownloadOf(url[w]), d)
         /\ pc' = [pc EXCEPT ![w] = IF d = "ok" THEN "write" ELSE "failed"]
    /\ UNCHANGED <<envVars, dbVars, fs, batch, cur, fname, current_retry, processed,
                   url, histVars>>

\* process(): with open(file_path, 'wb') as f: f.write(content); return relative_path
Write(w) ==
    /\ UNCHANGED <<spoolVars, pollVars>>
    /\ UNCHANGED clientVars
    /\ UNCHANGED lifeVars
    /\ pc[w] = "write"
    /\ fname[w] \in Files \/ Cardinality(Files) < MaxFiles
    /\ fs' = WriteFile(fname[w], cur[w])
    /\ Returned(w, fname[w])
    /\ pc' = [pc EXCEPT ![w] = "done"]
    /\ UNCHANGED <<envVars, dbVars, locVars, claimWon, claimLost, epochStart, repeat, begun>>

\* A file that holds only a part of the bytes of attachment a: what
\* open(file_path, 'wb') has created and f.write(content) has not filled.
Partial(a) == 0 - a

\* The same save taken step by step: with open(file_path, 'wb') creates the
\* file at its final path, empty.
OpenFile(w) ==
    /\ UNCHANGED <<spoolVars, pollVars>>
    /\ UNCHANGED clientVars
    /\ UNCHANGED lifeVars
    /\ pc[w] = "write"
    /\ fname[w] \in Files \/ Cardinality(Files) < MaxFiles
    /\ fs' = WriteFile(fname[w], Partial(cur[w]))
    /\ pc' = [pc EXCEPT ![w] = "writing"]
    /\ UNCHANGED <<envVars, dbVars, locVars, histVars>>

\* f.write(content) writes all the bytes and process() returns, or it raises
\* (disk full, I/O error) with the file left as far as it was written.
WriteOutcomes == {"written", "error"}
WriteContent(w) ==
    /\ UNCHANGED <<spoolVars, pollVars>>
    /\ UNCHANGED clientVars
    /\ UNCHANGED lifeVars
    /\ pc[w] = "writing"
    /\ \E r \in WriteOutcomes :
         IF r = "written"
         THEN /\ fs' = WriteFile(fname[w], cur[w])
              /\ Returned(w, fname[w])
              /\ pc' = [pc EXCEPT ![w] = "done"]
         ELSE /\ pc' = [pc EXCEPT ![w] = "failed"]
              /\ UNCHANGED <<fs, firstPath>>
    /\ UNCHANGED <<envVars, dbVars, locVars, claimWon, claimLost, epochStart, repeat, begun>>

\* self.db.mark_completed(attachment_id, local_filename); processed += 1
MarkCompleted(w) ==
    /\ UNCHANGED <<spoolVars, pollVars>>
    /\ UNCHANGED clientVars
    /\ UNCHANGED lifeVars
    /\ pc[w] = "done"
    /\ \E r \in DbOutcomes :
         IF r = "ok"
         THEN /\ status' = [status EXCEPT ![cur[w]] = "completed"]
              /\ local_filename' = [local_filename EXCEPT ![cur[w]] = fname[w]]
              /\ updated_at' = [updated_at EXCEPT ![cur[w]] = now]
              /\ NewEpoch({cur[w]})
         ELSE /\ UNCHANGED <<status, local_filename, updated_at>>
              /\ SameEpoch
    /\ processed' = [processed EXCEPT ![w] = @ + 1]
    /\ NextItem(w)
    /\ UNCHANGED <<envVars, retry_count, fs, batch, firstPath, begun>>

\* except Exception: self.db.mark_failed(...): the GET of retry_count
MarkFailedGet(w) ==
    /\ UNCHANGED <<spoolVars, pollVars>>
    /\ UNCHANGED clientVars
    /\ UNCHANGED lifeVars
    /\ pc[w] = "failed"
    /\ \E r \in DbOutcomes :
         IF r = "ok"
         THEN /\ current_retry' = [current_retry EXCEPT ![w] = retry_count[cur[w]]]
              /\ pc' = [pc EXCEPT ![w] = "patch"]
              /\ UNCHANGED <<cur, fname, netCalls, url, reqs, repeat>>
         ELSE NextItem(w)
    /\ UNCHANGED <<envVars, dbVars, fs, batch, processed, claimWon, claimLost, epochStart, firstPath, begun>>

\* mark_failed: the PATCH of status, retry_count = current_retry + 1
MarkFailedPatch(w) ==
    /\ UNCHANGED <<spoolVars, pollVars>>
    /\ UNCHANGED clientVars
    /\ pc[w] = "patch"
    /\ \E r \in DbOutcomes :
         IF r = "ok"
         THEN /\ retry_count' = [retry_count EXCEPT ![cur[w]] = current_retry[w] + 1]
              /\ status' = [status EXCEPT ![cur[w]] = FailStatus(current_retry[w] + 1)]
              /\ updated_at' = [updated_at EXCEPT ![cur[w]] = now]
              /\ NewEpoch({cur[w]})
              /\ unslept' = IF FailStatus(current_retry[w] + 1) = "pending" /\ w \in observed
                            THEN [unslept EXCEPT ![w] = @ \cup {cur[w]}] ELSE unslept
         ELSE /\ UNCHANGED <<retry_count, status, updated_at, unslept>>
              /\ SameEpoch
    /\ NextItem(w)
    /\ UNCHANGED <<running, config_ok, resets, observed, invoked, claimed>>
    /\ UNCHANGED <<envVars, local_filename, fs, batch, processed, firstPath, begun>>

\* The process ends where it stands: it is killed, or its own sys.exit()
\* unwinds it; nothing of the Application object is left.
Crash(w) ==
    /\ UNCHANGED <<spoolVars, pollVars>>
    /\ rpc' = [rpc EXCEPT ![w] = "idle"]
    /\ request_retry' = [request_retry EXCEPT ![w] = 0]
    /\ response' = [response EXCEPT ![w] = NoResponse]
    /\ result' = [result EXCEPT ![w] = "none"]
    /\ pc[w] /= "down"
    /\ running' = [running EXCEPT ![w] = FALSE]
    /\ resets' = [resets EXCEPT ![w] = 0]
    /\ unslept' = [unslept EXCEPT ![w] = {}]
    /\ claimed' = [claimed EXCEPT ![w] = {}]
    /\ UNCHANGED <<config_ok, observed, invoked>>
    /\ pc' = [pc EXCEPT ![w] = "down"]
    /\ batch' = [batch EXCEPT ![w] = << >>]
    /\ cur' = [cur EXCEPT ![w] = NoAttachment]
    /\ fname' = [fname EXCEPT ![w] = NoFile]
    /\ current_retry' = [current_retry EXCEPT ![w] = 0]
    /\ processed' = [processed EXCEPT ![w] = 0]
    /\ netCalls' = [netCalls EXCEPT ![w] = 0]
    /\ url' = [url EXCEPT ![w] = NoUrl]
    /\ reqs' = [reqs EXCEPT ![w] = << >>]
    /\ repeat' = [repeat EXCEPT ![w] = FALSE]
    /\ UNCHANGED <<envVars, dbVars, fs, claimWon, claimLost, epochStart, firstPath, begun>>

\* SIGINT or SIGTERM while main() is in app.run(): signal_handler calls
\* app.stop() and sys.exit(0); SystemExit is neither a KeyboardInterrupt nor an
\* Exception, so no handler of run() or _process_batch() catches it and the
\* process ends wherever the main thread stands.
StopSignal(w) ==
    /\ pc[w] /= "halted"
    /\ Crash(w)

\* Time passes.
Tick ==
    /\ UNCHANGED <<spoolVars, pollVars>>
    /\ UNCHANGED clientVars
    /\ UNCHANGED lifeVars
    /\ now < MaxTime
    /\ now' = now + 1
    /\ UNCHANGED <<dbFaults, rows, dbVars, fs, pc, locVars, histVars>>

\* _process_batch: local_filename = self.processor.process(attachment, db=self.db),
\* taken alone: a caller hands attachment a, which no other caller is handling,
\* to process().
Call(w, a) ==
    /\ UNCHANGED <<spoolVars, pollVars>>
    /\ UNCHANGED clientVars
    /\ UNCHANGED lifeVars
    /\ pc[w] = "down"
    /\ \A v \in Apps : cur[v] /= a
    /\ cur' = [cur EXCEPT ![w] = a]
    /\ pc' = [pc EXCEPT ![w] = "claimed"]
    /\ UNCHANGED <<envVars, dbVars, fs, batch, fname, current_retry, processed,
                   netCalls, url, reqs, histVars>>

\* The same, made only while no other process() call is running.
CallAlone(w, a) ==
    /\ \A v \in Apps : pc[v] = "down"
    /\ Call(w, a)

\* process() has returned its path or raised; the caller is done with it.
Return(w) ==
    /\ UNCHANGED <<spoolVars, pollVars>>
    /\ UNCHANGED clientVars
    /\ UNCHANGED lifeVars
    /\ pc[w] \in {"done", "failed"}
    /\ pc' = [pc EXCEPT ![w] = "down"]
    /\ cur' = [cur EXCEPT ![w] = NoAttachment]
    /\ fname' = [fname EXCEPT ![w] = NoFile]
    /\ netCalls' = [netCalls EXCEPT ![w] = 0]
    /\ url' = [url EXCEPT ![w] = NoUrl]
    /\ reqs' = [reqs EXCEPT ![w] = << >>]
    /\ repeat' = [repeat EXCEPT ![w] = FALSE]
    /\ UNCHANGED <<envVars, dbVars, fs, batch, current_retry, processed,
                   claimWon, claimLost, epochStart, firstPath, begun>>

\* The steps of one process() call.
ProcessStep(w) ==
    \/ BeginProcess(w)
    \/ ExistsCheck(w)
    \/ CheckExpiry(w)
    \/ Download(w)
    \/ Refresh403(w)
    \/ RetryDownload(w)
    \/ Write(w)

\* process() calls made one after the other.
SequentialNext ==
    \E w \in Apps :
        \/ \E a \in Attachments : CallAlone(w, a)
        \/ ProcessStep(w)
        \/ Return(w)

\* process() calls made by callers that run side by side.
ConcurrentNext ==
    \E w \in Apps :
        \/ \E a \in Attachments : Call(w, a)
        \/ ProcessStep(w)
        \/ Return(w)

\* run() of a single Application that is not interrupted.
Solo == CHOOSE w \in Apps : TRUE
SoloNext ==
    \/ Start(Solo)
    \/ ResetStuck(Solo)
    \/ Poll(Solo)
    \/ MarkDownloading(Solo)
    \/ EndBatch(Solo)
    \/ MarkSkipped(Solo)
    \/ ProcessStep(Solo)
    \/ MarkCompleted(Solo)
    \/ MarkFailedGet(Solo)
    \/ MarkFailedPatch(Solo)

\* run() of a single Application that is ended by stop signals and started again.
SoloStopNext ==
    \/ SoloNext
    \/ StopSignal(Solo)

\* The same with the save of process() taken step by step.
SoloSaveNext ==
    \/ Start(Solo)
    \/ ResetStuck(Solo)
    \/ Poll(Solo)
    \/ MarkDownloading(Solo)
    \/ EndBatch(Solo)
    \/ MarkSkipped(Solo)
    \/ BeginProcess(Solo)
    \/ ExistsCheck(Solo)
    \/ CheckExpiry(Solo)
    \/ Download(Solo)
    \/ Refresh403(Solo)
    \/ RetryDownload(Solo)
    \/ OpenFile(Solo)
    \/ WriteContent(Solo)
    \/ MarkCompleted(Solo)
    \/ MarkFailedGet(Solo)
    \/ MarkFailedPatch(Solo)
    \/ StopSignal(Solo)

\* run() of a single Application with the _request calls of its MissiveClient
\* taken step by step.
SoloRequestNext ==
    \/ SoloNext
    \/ RequestCall(Solo)
    \/ RequestSend(Solo)
    \/ RequestHandle(Solo)

AppNext ==
    \/ Tick
    \/ \E w \in Apps :
         \/ Start(w)
         \/ ResetStuck(w)
         \/ Poll(w)
         \/ MarkDownloading(w)
         \/ EndBatch(w)
         \/ MarkSkipped(w)
         \/ BeginProcess(w)
         \/ ExistsCheck(w)
         \/ CheckExpiry(w)
         \/ Download(w)
         \/ Refresh403(w)
         \/ RetryDownload(w)
         \/ Write(w)
         \/ MarkCompleted(w)
         \/ MarkFailedGet(w)
         \/ MarkFailedPatch(w)
         \/ Crash(w)

(***************************************************************************)
(* SpoolQueue (src/queue/spool_queue.py) and Worker._run (src/worker.py)   *)
(***************************************************************************)
Queues == 1 .. NumQueues

\* Conversation ids the Poller may enqueue.
ExternalIds == { <<"c","1">>, <<"c","/","2">>, <<"c","_","2">> }

\* re.sub(r"[^A-Za-z0-9._-]", "_", value)[:200]
_safe_id(value) ==
    LET safe == [i \in DOMAIN value |-> IF value[i] \in SafeChars THEN value[i] ELSE "_"]
    IN  SubSeq(safe, 1, IF Len(safe) < MaxIdLen THEN Len(safe) ELSE MaxIdLen)

Path(stem, suffix) == [stem |-> stem, suffix |-> suffix]
PathOf(f) == Path(f.stem, f.suffix)
Exists(path) == \E f \in dir : PathOf(f) = path
FileAt(path) == CHOOSE f \in dir : PathOf(f) = path

\* _list_files: the files with the suffix, sorted by st_mtime; files of equal
\* mtime come in the order iterdir() yields them, which is any order.
_list_files(suffix) ==
    LET S == {f \in dir : f.suffix = suffix}
    IN  {s \in [1 .. Cardinality(S) -> S] :
            /\ \A i, j \in DOMAIN s : i /= j => s[i] /= s[j]
            /\ \A i, j \in DOMAIN s : i < j => s[i].mtime <= s[j].mtime}

\* _is_retry_eligible: age = time.time() - st_mtime; age >= retry_seconds
_is_retry_eligible(f) == clock - f.mtime >= retry_seconds

Take(s, n) == SubSeq(s, 1, IF Len(s) < n THEN Len(s) ELSE n)
Paths(s) == [i \in DOMAIN s |-> PathOf(s[i])]
Stems(s) == [i \in DOMAIN s |-> s[i].stem]

SpoolInit ==
    /\ clock = 0
    /\ dir = {}
    /\ _current_file = [q \in Queues |-> None]
    /\ _current_batch_files = [q \in Queues |-> << >>]
    /\ _current_batch_items = [q \in Queues |-> << >>]
    /\ wpc = [q \in Queues |-> "top"]
    /\ todo = [q \in Queues |-> << >>]
    /\ held = [q \in Queues |-> {}]
    /\ worker_running = [q \in Queues |-> TRUE]

\* enqueue(item): open(path, "x") creates <safe id>.evt unless it exists.
enqueue(external_id) ==
    LET path == Path(_safe_id(external_id), ".evt")
    IN  dir' = IF Exists(path) THEN dir
               ELSE dir \cup {[stem |-> path.stem, suffix |-> ".evt", mtime |-> clock]}

\* Poller._poll_once: self.queue.enqueue(item) for a conversation with attachments.
Enqueue(x) ==
    /\ UNCHANGED <<appVars, pollVars>>
    /\ enqueue(x)
    /\ UNCHANGED <<clock, queueVars, wpc, todo, held, worker_running>>

\* dequeue_batch(max_items): `.evt` files first, then eligible `.retry` files;
\* _claim_file records the file in _current_file and builds the item.
DequeueBatch(q, max_items, evt_files, retry_files) ==
    LET first == Take(evt_files, max_items)
        eligible == SelectSeq(retry_files, _is_retry_eligible)
        second == IF Len(first) < max_items THEN Take(eligible, max_items - Len(first)) ELSE << >>
        claimed_files == Paths(first \o second)
        items == Stems(first \o second)
    IN  /\ _current_file' = IF claimed_files = << >> THEN _current_file
                            ELSE [_current_file EXCEPT ![q] = Some(claimed_files[Len(claimed_files)])]
        /\ _current_batch_files' = IF items = << >> THEN _current_batch_files
                                   ELSE [_current_batch_files EXCEPT ![q] = claimed_files]
        /\ _current_batch_items' = IF items = << >> THEN _current_batch_items
                                   ELSE [_current_batch_items EXCEPT ![q] = items]
        /\ todo' = [todo EXCEPT ![q] = items]
        /\ held' = [held EXCEPT ![q] = Range(items)]
        /\ wpc' = [wpc EXCEPT ![q] = IF items = << >> THEN "top" ELSE "items"]

\* Worker._run: batch = self.queue.dequeue_batch(max_items=5); an empty batch
\* sleeps and continues.
Dequeue(q) ==
    /\ UNCHANGED <<appVars, pollVars>>
    /\ wpc[q] = "top"
    /\ worker_running[q]
    /\ \E evt_files \in _list_files(".evt"), retry_files \in _list_files(".retry") :
         DequeueBatch(q, WorkerBatchItems, evt_files, retry_files)
    /\ UNCHANGED <<clock, dir, worker_running>>

\* mark_failed(item, error): works on _current_file, whatever item is passed.
mark_failed(q, item) ==
    IF _current_file[q] = None
    THEN UNCHANGED <<dir, _current_file>>
    ELSE LET current == Val(_current_file[q])
             retry_path == Path(current.stem, ".retry")
             \* os.replace(self._current_file, retry_path); FileNotFoundError passes
             renamed == IF current.suffix /= ".retry" /\ Exists(current)
                        THEN {f \in dir : PathOf(f) \notin {current, retry_path}}
                             \cup {[stem |-> current.stem, suffix |-> ".retry",
                                    mtime |-> FileAt(current).mtime]}
                        ELSE dir
             \* os.utime(retry_path, (now, now)); any exception passes
             stamped == {IF PathOf(f) = retry_path THEN [f EXCEPT !.mtime = clock] ELSE f
                            : f \in renamed}
         IN  /\ dir' = stamped
             /\ _current_file' = [_current_file EXCEPT ![q] = None]

\* Worker._run: for item in batch: unless `not self.running` breaks the loop,
\* process_conversation(item.external_id) returns, or raises and the item is
\* passed to mark_failed; either way the loop goes on to the next item.
ProcessOutcomes == {"returns", "raises"}
\* The same loop with the try around the for loop instead of inside it: a
\* raise leaves the rest of the batch to the outer handler.
ProcessItemRaiseEndsBatch(q) ==
    /\ UNCHANGED <<appVars, pollVars>>
    /\ wpc[q] = "items"
    /\ todo[q] /= << >>
    /\ worker_running[q]
    /\ \E outcome \in ProcessOutcomes :
         IF outcome = "raises"
         THEN /\ mark_failed(q, Head(todo[q]))
              /\ held' = [held EXCEPT ![q] = @ \ {Head(todo[q])}]
              /\ todo' = [todo EXCEPT ![q] = << >>]
              /\ wpc' = [wpc EXCEPT ![q] = "top"]
         ELSE /\ UNCHANGED <<dir, _current_file, held, wpc>>
              /\ todo' = [todo EXCEPT ![q] = Tail(@)]
    /\ UNCHANGED <<clock, _current_batch_files, _current_batch_items, worker_running>>

ProcessItem(q) ==
    /\ UNCHANGED <<appVars, pollVars>>
    /\ wpc[q] = "items"
    /\ todo[q] /= << >>
    /\ worker_running[q]
    /\ \E outcome \in ProcessOutcomes :
         IF outcome = "raises"
         THEN /\ mark_failed(q, Head(todo[q]))
              /\ held' = [held EXCEPT ![q] = @ \ {Head(todo[q])}]
         ELSE UNCHANGED <<dir, _current_file, held>>
    /\ todo' = [todo EXCEPT ![q] = Tail(@)]
    /\ UNCHANGED <<clock, _current_batch_files, _current_batch_items, wpc, worker_running>>

\* mark_batch_processed(): unlink every file of _current_batch_files.
mark_batch_processed(q) ==
    /\ dir' = {f \in dir : PathOf(f) \notin Range(_current_batch_files[q])}
    /\ _current_batch_files' = [_current_batch_files EXCEPT ![q] = << >>]
    /\ _current_batch_items' = [_current_batch_items EXCEPT ![q] = << >>]

\* Worker._run: after the for loop, which ends when the batch is exhausted
\* or `if not self.running: break` is taken, self.queue.mark_batch_processed()
Ack(q) ==
    /\ UNCHANGED <<appVars, pollVars>>
    /\ wpc[q] = "items"
    /\ todo[q] = << >> \/ ~worker_running[q]
    /\ mark_batch_processed(q)
    /\ held' = [held EXCEPT ![q] = {}]
    /\ todo' = [todo EXCEPT ![q] = << >>]
    /\ wpc' = [wpc EXCEPT ![q] = "top"]
    /\ UNCHANGED <<clock, _current_file, worker_running>>

\* Worker.stop(): self.running = False; the thread sees it at its next test.
WorkerStop(q) ==
    /\ UNCHANGED <<appVars, pollVars>>
    /\ worker_running[q]
    /\ worker_running' = [worker_running EXCEPT ![q] = FALSE]
    /\ UNCHANGED <<clock, dir, queueVars, wpc, todo, held>>

\* A second passes.
SpoolTick ==
    /\ UNCHANGED <<appVars, pollVars>>
    /\ clock < MaxClock
    /\ clock' = clock + 1
    /\ UNCHANGED <<dir, queueVars, wpc, todo, held, worker_running>>

SpoolNext ==
    \/ SpoolTick
    \/ \E x \in ExternalIds : Enqueue(x)
    \/ \E q \in Queues :
         \/ Dequeue(q)
         \/ ProcessItem(q)
         \/ Ack(q)

\* The spool with one Worker that may be stopped while the other runs on.
Stopped == CHOOSE q \in Queues : TRUE
SpoolStopNext ==
    \/ SpoolNext
    \/ WorkerStop(Stopped)

(***************************************************************************)
(* Poller (src/poller.py) and CheckpointManager (src/checkpoint.py)        *)
(***************************************************************************)
\* settings.BACKFILL_OVERLAP_SECONDS
BACKFILL_OVERLAP_SECONDS == 1

\* What get_conversations_updated_since may return: up to two conversations,
\* each with its attachments_count and the attachments of its latest_message.
Conversations ==
    [id : ExternalIds, attachments_count : {0, 1}, latest_attachments : {0, 1}]
ConversationLists ==
    {<< >>} \cup {<<c>> : c \in Conversations}
            \cup {p \in Conversations \X Conversations : p[1].id /= p[2].id}

\* _has_attachments: attachments_count > 0, or latest_message has attachments
_has_attachments(conversation) ==
    conversation.attachments_count > 0 \/ conversation.latest_attachments > 0

Ids(s) == [i \in DOMAIN s |-> s[i].id]

\* get_last_sync_time: the checkpoint less the overlap; without a readable
\* checkpoint MISSIVE_PROCESS_AFTER, or else 30 days before now.
get_last_sync_time ==
    IF checkpoint /= None THEN Val(checkpoint) - BACKFILL_OVERLAP_SECONDS
    ELSE IF process_after /= None THEN Val(process_after)
    ELSE clock - LookbackSeconds

\* save_sync_time: open(checkpoint_file, "w") and json.dump; an exception is
\* logged. A failure after the open leaves a truncated, unreadable file.
SaveOutcomes == {"saved", "not opened", "truncated"}
save_sync_time(sync_time, outcome) ==
    checkpoint' = CASE outcome = "saved" -> Some(sync_time)
                    [] outcome = "truncated" -> None
                    [] OTHER -> checkpoint

PollerInitWith(after) ==
    /\ checkpoint = None
    /\ process_after = after
    /\ poller_running = TRUE
    /\ stop_at = "none"
    /\ ppc = "sleep"
    /\ last_sync = 0
    /\ kept = << >>
    /\ cycleKept = {}
    /\ enqueued = {}
    /\ abandoned = None

PollerInit == PollerInitWith(None)

\* _poll_once: last_sync = self.checkpoint.get_last_sync_time()
PollBegin ==
    /\ UNCHANGED <<appVars, spoolVars>>
    /\ ppc = "sleep"
    /\ poller_running
    /\ last_sync' = get_last_sync_time
    /\ ppc' = "fetch"
    /\ cycleKept' = {}
    /\ enqueued' = {}
    /\ UNCHANGED <<checkpoint, process_after, poller_running, stop_at, kept, abandoned>>

\* _poll_once: except Exception: log and raise; _run logs and sleeps.
AbandonAndSave ==
    /\ checkpoint' = Some(clock)
    /\ ppc' = "sleep"
    /\ kept' = << >>
    /\ abandoned' = Some(last_sync)
Abandon ==
    /\ checkpoint' = checkpoint
    /\ ppc' = "sleep"
    /\ kept' = << >>
    /\ abandoned' = Some(last_sync)

\* _poll_once: conversations = self.client.get_conversations_updated_since(last_sync),
\* which returns or raises.
FetchOutcomes == {"returns", "raises"}
PollFetch ==
    /\ UNCHANGED <<appVars, spoolVars>>
    /\ ppc = "fetch"
    /\ \E outcome \in FetchOutcomes :
         IF outcome = "raises"
         THEN Abandon /\ UNCHANGED cycleKept
         ELSE \E conversations \in ConversationLists :
                /\ kept' = Ids(SelectSeq(conversations, _has_attachments))
                /\ cycleKept' = Range(kept')
                /\ ppc' = "enqueue"
                /\ UNCHANGED <<checkpoint, abandoned>>
    /\ UNCHANGED <<process_after, poller_running, stop_at, last_sync, enqueued>>

\* _poll_once: self.queue.enqueue(item), which re-raises what open() raises
\* other than FileExistsError.
EnqueueOutcomes == {"returns", "raises"}
\* The same loop with `if not self.running: break` in it and a return after it.
PollEnqueueUntilStopped ==
    /\ UNCHANGED appVars
    /\ ppc = "enqueue"
    /\ kept /= << >>
    /\ IF ~poller_running
       THEN /\ ppc' = "sleep"
            /\ kept' = << >>
            /\ UNCHANGED <<dir, enqueued, checkpoint, abandoned>>
       ELSE \E outcome \in EnqueueOutcomes :
              IF outcome = "raises"
              THEN Abandon /\ UNCHANGED <<dir, enqueued>>
              ELSE /\ enqueue(Head(kept))
                   /\ kept' = Tail(kept)
                   /\ enqueued' = enqueued \cup {Head(kept)}
                   /\ UNCHANGED <<checkpoint, ppc, abandoned>>
    /\ UNCHANGED <<clock, queueVars, wpc, todo, held, worker_running>>
    /\ UNCHANGED <<process_after, poller_running, stop_at, last_sync, cycleKept>>

PollEnqueue ==
    /\ UNCHANGED appVars
    /\ ppc = "enqueue"
    /\ kept /= << >>
    /\ \E outcome \in EnqueueOutcomes :
         IF outcome = "raises"
         THEN Abandon /\ UNCHANGED <<dir, enqueued>>
         ELSE /\ enqueue(Head(kept))
              /\ kept' = Tail(kept)
              /\ enqueued' = enqueued \cup {Head(kept)}
              /\ UNCHANGED <<checkpoint, ppc, abandoned>>
    /\ UNCHANGED <<clock, queueVars, wpc, todo, held, worker_running>>
    /\ UNCHANGED <<process_after, poller_running, stop_at, last_sync, cycleKept>>

\* _poll_once: self.checkpoint.save_sync_time(datetime.now())
PollSave ==
    /\ UNCHANGED <<appVars, spoolVars>>
    /\ ppc = "enqueue"
    /\ kept = << >>
    /\ \E outcome \in SaveOutcomes : save_sync_time(clock, outcome)
    /\ ppc' = "sleep"
    /\ abandoned' = None
    /\ UNCHANGED <<process_after, poller_running, stop_at, last_sync, kept, cycleKept, enqueued>>

\* Poller.stop(): self.running = False; the thread sees it at its next test.
PollerStop ==
    /\ UNCHANGED <<appVars, spoolVars>>
    /\ poller_running
    /\ poller_running' = FALSE
    /\ stop_at' = ppc
    /\ UNCHANGED <<checkpoint, process_after, ppc, last_sync, kept, cycleKept, enqueued, abandoned>>

\* _run: the sleep loop breaks on `not self.running` and `while self.running`
\* ends the thread.
PollerExit ==
    /\ UNCHANGED <<appVars, spoolVars>>
    /\ ppc = "sleep"
    /\ ~poller_running
    /\ ppc' = "stopped"
    /\ UNCHANGED <<checkpoint, process_after, poller_running, stop_at, last_sync, kept,
                   cycleKept, enqueued, abandoned>>

PollerNext ==
    \/ SpoolTick
    \/ PollBegin
    \/ PollFetch
    \/ PollEnqueue
    \/ PollSave

(***************************************************************************)
(* Specifications                                                          *)
(***************************************************************************)
vars == <<appVars, spoolVars, pollVars>>

\* The Applications over the attachment table; the spool is not in use.
Init == AppInit /\ SpoolInit /\ PollerInit
Next == AppNext
Spec == Init /\ [][Next]_vars

\* The same, with database requests that may fail.
InitFaults == AppInitWith(TRUE) /\ SpoolInit /\ PollerInit
SpecFaults == InitFaults /\ [][Next]_vars

\* The Workers and the Poller over the spool directory; no Application runs.
SpecSpool == Init /\ [][SpoolNext]_vars
SpecSpoolStop == Init /\ [][SpoolStopNext]_vars

\* AttachmentProcessor.process over one storage folder, for attachments whose
\* names collide: calls made one after the other, and calls made side by side.
InitSameName ==
    /\ \E table \in [Attachments -> SameNameProfiles] : AppInitRows(FALSE, table)
    /\ SpoolInit /\ PollerInit
\* One Application over a table whose first row has any of the metadata profiles.
InitMetadata ==
    /\ \E r \in MetadataProfiles :
         AppInitRows(FALSE, [a \in Attachments |-> IF a = 1 THEN r ELSE InvoicePdf])
    /\ SpoolInit /\ PollerInit
SpecClassify == InitMetadata /\ [][SoloNext]_vars

\* One Application started with a configuration that validates or does not.
InitConfig ==
    /\ \E config \in BOOLEAN :
         AppInitConfig(FALSE, [a \in Attachments |-> Profiles[((a - 1) % Len(Profiles)) + 1]],
                       config, {})
    /\ SpoolInit /\ PollerInit
SpecLifecycle == InitConfig /\ [][SoloStopNext]_vars

\* One Application whose save is taken step by step.
SpecSave == Init /\ [][SoloSaveNext]_vars

\* One Application whose batches are recorded, without and with database faults.
InitObserved(faults) ==
    /\ AppInitConfig(faults, [a \in Attachments |-> Profiles[((a - 1) % Len(Profiles)) + 1]],
                     TRUE, {Solo})
    /\ SpoolInit /\ PollerInit
InitBatch == InitObserved(FALSE)
InitBatchFaults == InitObserved(TRUE)
SpecBatch == InitBatch /\ [][SoloNext]_vars
SpecBatchFaults == InitBatchFaults /\ [][SoloNext]_vars

\* One Application whose main thread always takes its next step, with the
\* requests to the Missive API taken in one step and step by step.
SpecSoloLive == InitBatch /\ [][SoloNext]_vars /\ WF_vars(SoloNext)
SpecRequestLive == InitBatch /\ [][SoloRequestNext]_vars /\ WF_vars(SoloRequestNext)

\* The Poller with its checkpoint and the spool directory, with and without
\* MISSIVE_PROCESS_AFTER.
FirstRunDates == {None, Some(0 - LookbackSeconds)}
InitPoller ==
    /\ AppInit /\ SpoolInit
    /\ \E after \in FirstRunDates : PollerInitWith(after)
SpecPoller == InitPoller /\ [][PollerNext]_vars

\* The same with a Poller that may be stopped; its thread is always scheduled again.
PollerThread ==
    \/ PollBegin
    \/ PollFetch
    \/ PollEnqueue
    \/ PollSave
    \/ PollerExit
PollerStopNext ==
    \/ SpoolTick
    \/ PollerStop
    \/ PollerThread
SpecPollerStop == InitPoller /\ [][PollerStopNext]_vars /\ WF_vars(PollerThread)

SpecSequential == InitSameName /\ [][SequentialNext]_vars
SpecConcurrent == InitSameName /\ [][ConcurrentNext]_vars


(***************************************************************************)
(* Properties of the attachment table and the storage folder (Spec)        *)
(***************************************************************************)
\* The Applications between a mark_downloading that returned True for attachment a
\* and their mark_completed / mark_skipped / mark_failed for it.
Holders(a) == {w \in Apps : cur[w] = a /\ pc[w] \notin {"down", "reset", "poll", "loop"}}

\* C1: of the mark_downloading calls made on a row since it was last written as
\* 'pending', exactly one returned True and every other returned False; a row
\* last written with another status yields no True at all.
C1_ClaimHasOneWinner ==
    \A a \in Attachments :
        /\ claimWon[a] <= 1
        /\ (epochStart[a] = "pending" /\ claimWon[a] + claimLost[a] >= 1) => claimWon[a] = 1
        /\ epochStart[a] /= "pending" => claimWon[a] = 0

\* C1 witness: two Applications raced for the same pending row; one won, one lost.
C1_Witness ==
    \E a \in Attachments :
        epochStart[a] = "pending" /\ claimWon[a] = 1 /\ claimLost[a] >= 1

\* C3: for each attachment id at most one Application is between a successful
\* mark_downloading and its matching mark_completed / mark_skipped / mark_failed.
C3_AtMostOneHolder == \A a \in Attachments : Cardinality(Holders(a)) <= 1

\* C5: each attachment id has at most one file under the storage root.
C5_OneFilePerAttachment ==
    \A a \in Attachments : Cardinality({f \in fs : f.content = a}) <= 1

\* C6: a process() call for an attachment made after an earlier call for it has
\* returned (its file still exists) issues no network request and returns the
\* same path as the first call.
C6_SecondProcessIsNoOp ==
    \A w \in Apps :
        (pc[w] = "done" /\ repeat[w]) => (netCalls[w] = 0 /\ fname[w] = firstPath[cur[w]])

\* C7: every mark_failed write raises the record's retry_count by exactly one
\* and sets status 'failed' iff the new retry_count >= MAX_RETRIES, else 'pending'.
C7_FailIncrementsByOne ==
    [][\A w \in Apps :
         (pc[w] = "patch" /\ pc'[w] = "loop") =>
            /\ retry_count'[cur[w]] = retry_count[cur[w]] + 1
            /\ status'[cur[w]] = (IF retry_count'[cur[w]] >= MAX_RETRIES
                                  THEN "failed" ELSE "pending")]_vars

\* C8: a record's retry_count never decreases from one state to the next, and a
\* record with status 'failed' has retry_count >= MAX_RETRIES.
C8_RetryMonotonic ==
    /\ [](\A a \in Attachments : status[a] = "failed" => retry_count[a] >= MAX_RETRIES)
    /\ [][\A a \in Attachments : retry_count'[a] >= retry_count[a]]_vars

\* C9: once a record is 'completed' no later step changes its status or its
\* local_filename (so no mark_downloading on it returns True).
C9_CompletedIsImmutable ==
    [][\A a \in Attachments :
         status[a] = "completed" =>
            (status'[a] = "completed" /\ local_filename'[a] = local_filename[a])]_vars

\* C10: once a record is 'failed' it is never fetched as pending, claimed or
\* reset, and no step moves it to another status.
C10_FailedIsTerminal ==
    [][\A a \in Attachments :
         status[a] = "failed" =>
            /\ status'[a] = "failed"
            /\ \A w \in Apps : batch'[w] /= batch[w] => a \notin Range(batch'[w])]_vars

(***************************************************************************)
(* Properties of the spool queue (SpecSpool)                               *)
(***************************************************************************)
\* C2: no queue entry is held by two SpoolQueue instances at once: an entry
\* returned to one caller of dequeue_batch is not returned to another caller
\* until it is acknowledged or failed.
C2_NoEntryClaimedTwice ==
    \A q1, q2 \in Queues : q1 /= q2 => held[q1] \cap held[q2] = {}

\* C4: the spool directory holds at most one entry file ('.evt' or '.retry')
\* for an external_id.
C4_OneLiveEntryPerId ==
    \A x \in ExternalIds : Cardinality({f \in dir : f.stem = _safe_id(x)}) <= 1

(***************************************************************************)
(* Crash recovery (Spec)                                                   *)
(***************************************************************************)
\* Minutes since the row was last written.
AgeMinutes(a) == (now - updated_at[a]) * TickMinutes

\* C11: a reset_stuck_downloads sweep sets every 'downloading' row older than
\* the stale-claim timeout back to 'pending', where the next mark_downloading on
\* it matches; it leaves every younger 'downloading' row and every row of
\* another status as it was.
C11_SweepResetsOnlyStale ==
    [][\A w \in Apps :
         (pc[w] = "reset" /\ pc'[w] = "poll") =>
            \A a \in Attachments :
               IF status[a] = "downloading" /\ AgeMinutes(a) > StuckMinutes
               THEN status'[a] = "pending" /\ retry_count'[a] < MAX_RETRIES
               ELSE /\ status'[a] = status[a]
                    /\ updated_at'[a] = updated_at[a]
                    /\ retry_count'[a] = retry_count[a]]_vars

\* C11 witness: a row whose claimant died was swept back to 'pending' (only the
\* sweep writes 'pending' with retry_count 0) while another row, claimed within
\* the timeout, is still 'downloading'.
C11_Witness ==
    \E a, b \in Attachments :
        /\ status[a] = "pending" /\ retry_count[a] = 0 /\ updated_at[a] > 0
        /\ Holders(a) = {}
        /\ status[b] = "downloading" /\ AgeMinutes(b) <= StuckMinutes

(***************************************************************************)
(* URL refresh in AttachmentProcessor.process (Spec)                       *)
(***************************************************************************)
IsDownload(e) == e.req \in {"download original", "download fresh"}
Downloads(w) == {i \in DOMAIN reqs[w] : IsDownload(reqs[w][i])}

\* C14: when process() checks a URL whose 'Expires' is in the past or at most
\* 60 seconds ahead, its first network request is the request for a fresh URL,
\* and a download that follows uses the fresh URL, never the original one.
C14_ExpiredUrlRefreshedFirst ==
    /\ [][\A w \in Apps :
            ( /\ pc[w] = "expiry" /\ pc'[w] \notin {"expiry", "down"}
              /\ url[w].Expires /= None
              /\ Val(url[w].Expires) - NowTs <= 60 ) =>
                /\ Len(reqs'[w]) = 1 /\ reqs'[w][1].req = "refresh"
                /\ pc'[w] = "download" => url'[w].kind = "fresh"]_vars
    /\ [](\A w \in Apps :
            (reqs[w] /= << >> /\ reqs[w][1].req = "refresh") =>
                \A i \in DOMAIN reqs[w] : reqs[w][i].req /= "download original")

\* C14 witness: the URL was refreshed before anything else and the download
\* that followed took the fresh URL.
C14_Witness ==
    \E w \in Apps :
        /\ pc[w] = "write" /\ Len(reqs[w]) = 2
        /\ reqs[w][1].req = "refresh" /\ reqs[w][2].req = "download fresh"

\* The process() call has got past _download_with_refresh, or has raised.
PastDownload(w) == pc[w] \in {"write", "done", "failed", "patch"}

\* Index of the first download request of the call.
FirstDownload(w) == CHOOSE i \in Downloads(w) : \A j \in Downloads(w) : i <= j

\* No process() call issues more than two download requests, and after the
\* retried download it issues no request at all.
BoundedDownloads(w) ==
    /\ Cardinality(Downloads(w)) <= 2
    /\ Cardinality(Downloads(w)) = 2 => PastDownload(w)

\* C15: a first download answered 403 is followed by exactly one fresh-URL
\* request and exactly one retried download and by nothing else; a retried
\* download that fails makes the call raise; no call issues more than two
\* downloads.
C15_One403RefreshOneRetry ==
    \A w \in Apps :
        /\ BoundedDownloads(w)
        /\ (PastDownload(w) /\ Downloads(w) /= {}) =>
              LET i == FirstDownload(w)
              IN  reqs[w][i].resp = "403" =>
                    /\ Len(reqs[w]) = i + 2
                    /\ reqs[w][i + 1].req = "refresh"
                    /\ reqs[w][i + 2].req = "download fresh"
                    /\ reqs[w][i + 2].resp /= "ok" => pc[w] \in {"failed", "patch"}

\* C15, amended: a first download answered 403 is followed by exactly one
\* fresh-URL request; when that request yields a URL it is followed by exactly
\* one retried download and nothing else, and a retried download that fails
\* makes the call raise; when it yields no URL the call raises with no retried
\* download; no call issues more than two downloads.
C15_One403RefreshOneRetryIfUrl ==
    \A w \in Apps :
        /\ BoundedDownloads(w)
        /\ (PastDownload(w) /\ Downloads(w) /= {}) =>
              LET i == FirstDownload(w)
              IN  reqs[w][i].resp = "403" =>
                    /\ Len(reqs[w]) >= i + 1
                    /\ reqs[w][i + 1].req = "refresh"
                    /\ IF reqs[w][i + 1].resp = "fresh"
                       THEN /\ Len(reqs[w]) = i + 2
                            /\ reqs[w][i + 2].req = "download fresh"
                            /\ reqs[w][i + 2].resp /= "ok" => pc[w] \in {"failed", "patch"}
                       ELSE /\ Len(reqs[w]) = i + 1
                            /\ pc[w] \in {"failed", "patch"}

\* C15 witness: the download was answered 403, the URL was refreshed once, the
\* retried download was answered 403 too, and the call has raised.
C15_Witness ==
    \E w \in Apps :
        /\ pc[w] = "failed" /\ Len(reqs[w]) = 3
        /\ reqs[w][1].req = "download original" /\ reqs[w][1].resp = "403"
        /\ reqs[w][2].req = "refresh"
        /\ reqs[w][3].req = "download fresh" /\ reqs[w][3].resp = "403"

(***************************************************************************)
(* Collision-safe naming (SpecSequential, SpecConcurrent)                  *)
(***************************************************************************)
\* invoice.pdf, invoice_1.pdf, invoice_2.pdf
InvoiceNames ==
    << <<"i","n","v","o","i","c","e",".","p","d","f">>,
       <<"i","n","v","o","i","c","e","_","1",".","p","d","f">>,
       <<"i","n","v","o","i","c","e","_","2",".","p","d","f">> >>

\* The file process() returned for the attachment holds that attachment's bytes.
Retained(a) ==
    firstPath[a] /= NoFile => [name |-> firstPath[a], content |-> a] \in fs

\* C12: when attachments named invoice.pdf are processed one after the other,
\* the first file saved is invoice.pdf, the second invoice_1.pdf, the third
\* invoice_2.pdf; every attachment's file holds that attachment; and no step
\* overwrites or removes an existing file.
C12_SequentialNamesProbe ==
    /\ [](Files = {InvoiceNames[k] : k \in 1 .. Cardinality(fs)})
    /\ [](\A a \in Attachments : Retained(a))
    /\ [][\A f \in fs : f \in fs']_vars

\* C12 witness: two distinct attachments were processed; the first is kept as
\* invoice.pdf and the second as invoice_1.pdf.
C12_Witness ==
    \E a, b \in Attachments :
        /\ a /= b
        /\ [name |-> InvoiceNames[1], content |-> a] \in fs
        /\ [name |-> InvoiceNames[2], content |-> b] \in fs
        /\ firstPath[a] = InvoiceNames[1] /\ firstPath[b] = InvoiceNames[2]

\* C13: when callers process distinct attachments of the same sanitized name
\* side by side, every attachment whose process() returned is kept under the
\* path returned for it, with its own bytes, and no write replaces a file.
C13_ConcurrentBothRetained ==
    /\ [](\A a \in Attachments : Retained(a))
    /\ [][\A f \in fs : f \in fs']_vars

(***************************************************************************)
(* Skip classification (SpecClassify, Spec)                                *)
(***************************************************************************)
\* The rule as stated: an always-skip type, or an image whose file_size is
\* below SKIP_IMAGE_MIN_SIZE or whose width or height is below
\* SKIP_IMAGE_MIN_DIMENSION, 0 and a lone known dimension included.
BelowThreshold(x, threshold) == x /= None /\ Val(x) < threshold
StatedToSkip(r) ==
    \/ <<r.media_type, r.sub_type>> \in SKIP_TYPES
    \/ /\ r.media_type = "image"
       /\ \/ BelowThreshold(r.file_size, SKIP_IMAGE_MIN_SIZE)
          \/ BelowThreshold(r.width, SKIP_IMAGE_MIN_DIMENSION)
          \/ BelowThreshold(r.height, SKIP_IMAGE_MIN_DIMENSION)

\* C16: for every attachment the stated rule skips, processor.process is never
\* called, and a claim of it ends with the row marked 'skipped'.
C16_StatedRuleIsSkipped ==
    \A a \in Attachments :
        StatedToSkip(rows[a]) =>
            /\ ~begun[a]
            /\ status[a] \in {"pending", "downloading", "skipped"}

\* C17: a row with status 'skipped' is one for which processor.process was
\* never called, in the claim that skipped it or in any earlier one, and its
\* retry_count is 0.
C17_SkippedNeverBegun ==
    \A a \in Attachments :
        status[a] = "skipped" => (~begun[a] /\ retry_count[a] = 0)

\* C17 witness: one row was skipped while the download of another was under
\* way or over.
C17_Witness ==
    \E a, b \in Attachments : status[a] = "skipped" /\ begun[b]

(***************************************************************************)
(* Acknowledgement and retry in the spool queue (SpecSpool)                *)
(***************************************************************************)
\* No other SpoolQueue instance is handling a batch.
OthersIdle(q) ==
    \A p \in Queues \ {q} : wpc[p] = "top" /\ _current_batch_files[p] = << >>

\* The Worker's process_conversation(item) has raised and mark_failed(item) ran.
FailsHead(q) ==
    /\ wpc[q] = "items" /\ todo[q] /= << >>
    /\ todo'[q] = Tail(todo[q])
    /\ Head(todo[q]) \in held[q] /\ Head(todo[q]) \notin held'[q]

\* C18: when a Worker has handled a batch, mark_batch_processed leaves no entry
\* of an item whose processing returned, and leaves a '.retry' entry of every
\* item whose processing raised, wherever the item stood in the batch.
C18_AckRemovesExactlySucceeded ==
    [][\A q \in Queues :
         (wpc[q] = "items" /\ wpc'[q] = "top" /\ OthersIdle(q)) =>
            \A x \in Range(_current_batch_items[q]) :
               IF x \in held[q]
               THEN ~ \E f \in dir' : f.stem = x
               ELSE \E f \in dir' : f.stem = x /\ f.suffix = ".retry"]_vars

\* C19: mark_failed(item) leaves the entry of that very item as a '.retry'
\* file stamped with the current time, and leaves the entries of every other
\* item as they were; also when it is not the first mark_failed of the batch.
C19_MarkFailedMovesThatItem ==
    [][\A q \in Queues :
         (FailsHead(q) /\ OthersIdle(q)) =>
            LET x == Head(todo[q])
            IN  /\ \E f \in dir' : f.stem = x /\ f.suffix = ".retry" /\ f.mtime = clock
                /\ \A g \in dir : g.stem /= x => g \in dir']_vars

(***************************************************************************)
(* The checkpoint of an abandoned poll cycle (SpecPoller)                  *)
(***************************************************************************)
\* The cycle ends because the fetch or an enqueue raised.
CycleRaises ==
    /\ ppc' = "sleep"
    /\ ppc = "fetch" \/ (ppc = "enqueue" /\ kept /= << >>)

\* A cycle that raises leaves the checkpoint as it was, and the checkpoint
\* changes only in the step after the loop, when enqueue has returned for
\* every kept conversation of the cycle.
CheckpointOnlyAfterAll ==
    /\ CycleRaises => checkpoint' = checkpoint
    /\ checkpoint' /= checkpoint =>
          (ppc = "enqueue" /\ kept = << >> /\ enqueued = cycleKept)

C21_CheckpointMonotonic ==
    [][checkpoint /= None =>
         (checkpoint' /= None /\ Val(checkpoint') >= Val(checkpoint))]_vars

(***************************************************************************)
(* The Worker loop and Worker.stop (SpecSpoolStop)                         *)
(***************************************************************************)
\* C22: while the Worker is running, every item of a claimed batch is
\* attempted: whatever the Worker does with a batch that has items left, a
\* raise included, it moves on to the next item of the same batch, and the
\* batch is not left before its last item.
C22_EveryItemAttempted ==
    [][\A q \in Queues :
         (wpc[q] = "items" /\ todo[q] /= << >> /\ worker_running[q]) =>
            \/ todo'[q] = todo[q] /\ wpc'[q] = "items"
            \/ todo'[q] = Tail(todo[q]) /\ wpc'[q] = "items"]_vars

\* The first item of a batch of two raised and the second was processed too.
C22_Witness ==
    \E q \in Queues :
       /\ wpc[q] = "items" /\ worker_running[q]
       /\ Len(_current_batch_items[q]) = 2
       /\ todo[q] = << >>
       /\ _current_batch_items[q][1] \notin held[q]
       /\ _current_batch_items[q][2] \in held[q]

\* C24: when the Worker leaves a batch, the items its loop had not reached
\* still have their entry in the spool directory.
C24_StopKeepsUnprocessed ==
    [][\A q \in Queues :
         (wpc[q] = "items" /\ wpc'[q] = "top" /\ OthersIdle(q)) =>
            \A x \in Range(todo[q]) : \E f \in dir' : f.stem = x]_vars

(***************************************************************************)
(* The order of a dequeued batch (SpecSpool)                               *)
(***************************************************************************)
\* C30: dequeue_batch(max_items) returns at most max_items entries, ordered
\* oldest-first by modification time across the whole result: no returned
\* entry is older than one returned before it, '.retry' entries included.
C30_DequeueOldestFirst ==
    [][\A q \in Queues :
         (wpc[q] = "top" /\ wpc'[q] = "items") =>
            LET files == _current_batch_files'[q]
            IN  /\ Len(files) <= WorkerBatchItems
                /\ \A i, j \in 1..Len(files) :
                      i < j => FileAt(files[i]).mtime <= FileAt(files[j]).mtime]_vars

(***************************************************************************)
(* Startup of the Application (SpecLifecycle, Spec)                           *)
(***************************************************************************)
\* C25: with required configuration missing the Application halts before the
\* main loop: it never gets past start(), so no reset_stuck_downloads,
\* get_pending_attachments or mark_downloading request is issued, no row
\* changes, and running is never True.
C25_MissingConfigHalts ==
    ~config_ok =>
        /\ \A w \in Apps :
              /\ ~running[w]
              /\ resets[w] = 0
              /\ pc[w] \in {"down", "halted"}
        /\ \A a \in Attachments : status[a] = "pending" /\ claimWon[a] = 0 /\ claimLost[a] = 0

\* The Application was started without its configuration and has halted.
C25_Witness ==
    ~config_ok /\ pc[Solo] = "halted"

\* C29: run() issues reset_stuck_downloads exactly once per process, after
\* the configuration validated (running is True) and before the process can
\* issue its first get_pending_attachments or mark_downloading.
C29_ResetOnceAtStartup ==
    \A w \in Apps :
       /\ resets[w] <= 1
       /\ resets[w] = 1 => running[w]
       /\ pc[w] = "reset" => running[w] /\ resets[w] = 0
       /\ pc[w] \notin {"down", "halted", "reset"} => resets[w] = 1

\* A process has reset the stale claims and then claimed a row, after an
\* earlier process of the same Application had done its own reset and died.
C29_Witness ==
    \E w \in Apps :
       /\ pc[w] = "claimed" /\ resets[w] = 1
       /\ \E a \in Attachments : a /= cur[w] /\ status[a] = "downloading"
                                  /\ \A v \in Apps : cur[v] /= a

(***************************************************************************)
(* Stop signals (SpecLifecycle)                                            *)
(***************************************************************************)
\* C23: when the Application ends on a stop signal, the attachment it had
\* claimed is no longer in status 'downloading'.
C23_StopFinishesClaimed ==
    [][\A w \in Apps :
         (pc[w] /= "down" /\ pc'[w] = "down" /\ cur[w] /= NoAttachment) =>
            status'[cur[w]] /= "downloading"]_vars

(***************************************************************************)
(* The saved file (SpecSave)                                               *)
(***************************************************************************)
\* C26: every file at a final path holds the complete content of an attachment.
C26_NoPartialFile ==
    \A f \in fs : f.content \in Attachments

(***************************************************************************)
(* One _process_batch call (SpecBatch, SpecBatchFaults)                    *)
(***************************************************************************)
\* C27: an Application does not claim an attachment that its own mark_failed
\* has returned to 'pending' before it has slept one POLL_INTERVAL.
C27_SleepBeforeReclaim ==
    [][\A w \in observed :
         (pc[w] = "loop" /\ pc'[w] = "claimed") => cur'[w] \notin unslept[w]]_vars

\* C28: when _process_batch returns, no attachment claimed during the call is
\* still in status 'downloading'.
C28_BatchLeavesNoneDownloading ==
    [][\A w \in observed :
         (pc[w] = "loop" /\ batch[w] = << >> /\ pc'[w] = "poll") =>
            \A a \in claimed[w] : status[a] /= "downloading"]_vars

(***************************************************************************)
(* Termination of MissiveClient._request (SpecRequestLive)                 *)
(***************************************************************************)
\* C31: every _request call returns, whatever the server answers: a call that
\* is sending, or has its response in hand, leads to the call having returned.
C31_RequestTerminates ==
    \A w \in Apps : (rpc[w] \in {"send", "handle"}) ~> (rpc[w] = "returned")

(***************************************************************************)
(* Poller.stop (SpecPollerStop)                                            *)
(***************************************************************************)
\* The cycle in progress ends: by a raise, or by the save after the last enqueue.
CycleEnds == ppc \in {"fetch", "enqueue"} /\ ppc' \notin {"fetch", "enqueue"}

\* C32: once stop() has set running to False the loop starts no further cycle
\* and exits, and it observes the stop only between cycles: a cycle in
\* progress ends as it does without a stop, by a raise or by the checkpoint
\* save after every kept conversation was enqueued.
C32_StopBetweenCycles ==
    /\ [][~poller_running => ~(ppc = "sleep" /\ ppc' = "fetch")]_vars
    /\ [][CycleEnds => /\ ppc' = "sleep"
                       /\ \/ abandoned' /= None
                          \/ ppc = "enqueue" /\ kept = << >> /\ enqueued = cycleKept]_vars
    /\ [][ppc' = "stopped" => ppc \in {"sleep", "stopped"} /\ ~poller_running]_vars
    /\ ~poller_running ~> (ppc = "stopped")

\* stop() was called while the fetch was under way; the cycle went on to
\* enqueue what it kept and saved the checkpoint, and then the loop exited.
C32_Witness ==
    /\ stop_at = "fetch" /\ ppc = "stopped"
    /\ enqueued /= {} /\ enqueued = cycleKept
    /\ checkpoint /= None /\ abandoned = None

(***************************************************************************)
(* Every pending record is settled (SpecRequestLive)                       *)
(***************************************************************************)
Terminal == {"completed", "failed", "skipped"}

====
